---------------------------- MODULE Spec2Model ----------------------------
(***************************************************************************)
(* Model of src/src/rcpp_EMprec.cpp (EMgaussian): the E step               *)
(* (imp1matprec, imp2matprec), one EM cycle (EMcycleprec) and the observed *)
(* data negative log-likelihood (nllprec), precision parameterization.     *)
(*                                                                         *)
(* Numbers are exact rationals <<num, den>> with den > 0 in lowest terms;  *)
(* the non-finite value that marks a missing entry is <<0, 0>>.  Vectors   *)
(* are sequences of numbers, matrices are sequences of rows.  Indices are  *)
(* 1-based here and 0-based in the source.                                 *)
(***************************************************************************)
EXTENDS Integers, Sequences, FiniteSets, Bags, TLC

\* ------------------------------------------------------------------ bounds
\* D has at most MaxP columns and at most MaxCells entries.
MaxP == 2
MaxCells == 6

\* ------------------------------------------------------- exact arithmetic
Abs(n) == IF n < 0 THEN -n ELSE n

RECURSIVE GCD(_, _)
GCD(a, b) == IF b = 0 THEN a ELSE GCD(b, a % b)

Norm(n, d) ==
  LET g == GCD(Abs(n), Abs(d))
      s == IF d < 0 THEN -1 ELSE 1
  IN  <<(s * n) \div g, (s * d) \div g>>

NaN == <<0, 0>>
Zero == <<0, 1>>
One == <<1, 1>>
Q(n) == <<n, 1>>

IsFinite(x) == x[2] # 0
\* Sums go over the least common denominator and products cancel across
\* before they multiply, which keeps the intermediate integers small.
RAdd(x, y) ==
  LET g == GCD(x[2], y[2])
  IN  Norm(x[1] * (y[2] \div g) + y[1] * (x[2] \div g), x[2] * (y[2] \div g))
RMul(x, y) ==
  LET a == Norm(x[1], y[2])
      b == Norm(y[1], x[2])
  IN  Norm(a[1] * b[1], a[2] * b[2])
RSub(x, y) == RAdd(x, <<-y[1], y[2]>>)
RDiv(x, y) == RMul(x, IF y[1] < 0 THEN <<-y[2], -y[1]>> ELSE <<y[2], y[1]>>)
RNeg(x) == <<-x[1], x[2]>>
RPos(x) == x[1] > 0
RLess(x, y) == x[1] * y[2] < y[1] * x[2]

RECURSIVE RSumTo(_, _)
RSumTo(s, n) == IF n = 0 THEN Zero ELSE RAdd(RSumTo(s, n - 1), s[n])
RSum(s) == RSumTo(s, Len(s))

\* ------------------------------------------------- dense linear algebra
\* The value v itself, computed once: comparing a function forces TLC to
\* tabulate it, so later reads of its entries do not recompute them.
Eager(v) == CHOOSE w \in {v} : w = v

NRows(A) == Len(A)
NCols(A) == IF Len(A) = 0 THEN 0 ELSE Len(A[1])

Range(s) == {s[k] : k \in 1..Len(s)}
Iota(n) == [k \in 1..n |-> k]

\* The product A * v; an empty inner dimension gives zeros.
MatVec(A, v) ==
  Eager([i \in 1..Len(A) |-> RSum([k \in 1..Len(v) |-> RMul(A[i][k], v[k])])])

Dot(u, v) == RSum([k \in 1..Len(u) |-> RMul(u[k], v[k])])

DropAt(s, k) ==
  Eager([j \in 1..(Len(s) - 1) |-> IF j < k THEN s[j] ELSE s[j + 1]])
Minor(A, r, c) ==
  Eager([i \in 1..(Len(A) - 1) |-> DropAt(DropAt(A, r)[i], c)])

\* arma::det, by expansion along the first row; the determinant of the 0x0
\* matrix is 1.
RECURSIVE det(_)
det(A) ==
  IF Len(A) = 0 THEN One
  ELSE IF Len(A) = 1 THEN A[1][1]
  ELSE IF Len(A) = 2
       THEN RSub(RMul(A[1][1], A[2][2]), RMul(A[1][2], A[2][1]))
  ELSE RSum([j \in 1..Len(A) |->
              LET t == RMul(A[1][j], det(Minor(A, 1, j)))
              IN  IF j % 2 = 1 THEN t ELSE RNeg(t)])

\* Outcomes of a call: "ok", or the exception the call ends in.
Ok(v) == [status |-> "ok", val |-> v]
Err(e) == [status |-> e]
IsOk(r) == r.status = "ok"

InvByDet(A, dt) ==
  IF dt = Zero THEN Err("runtime_error")
  ELSE Ok(Eager([i \in 1..Len(A) |-> [j \in 1..Len(A) |->
            LET c == RDiv(det(Minor(A, j, i)), dt)
            IN  IF (i + j) % 2 = 0 THEN c ELSE RNeg(c)]]))

\* arma::inv: a non-square operand is a logic_error, a singular one a
\* runtime_error; the inverse of the 0x0 matrix is the 0x0 matrix.
inv(A) ==
  IF Len(A) > 0 /\ NCols(A) # Len(A) THEN Err("logic_error")
  ELSE InvByDet(A, Eager(det(A)))

\* find_finite / find_nonfinite: ascending column indices of a row.
find_finite(row) == SelectSeq(Iota(Len(row)), LAMBDA j : IsFinite(row[j]))
find_nonfinite(row) == SelectSeq(Iota(Len(row)), LAMBDA j : ~IsFinite(row[j]))

\* v(idx) is checked against the length of v.
ElemOK(v, idx) == \A k \in Range(idx) : k <= Len(v)
Elem(v, idx) == Eager([k \in 1..Len(idx) |-> v[idx[k]]])

\* A.submat(ri, ci) checks each column index, and each row index once per
\* column index.
SubmatOK(A, ri, ci) ==
  /\ \A c \in Range(ci) : c <= NCols(A)
  /\ Len(ci) > 0 => \A r \in Range(ri) : r <= NRows(A)
Submat(A, ri, ci) ==
  Eager([i \in 1..Len(ri) |-> [j \in 1..Len(ci) |-> A[ri[i]][ci[j]]]])

Pos(s, x) == CHOOSE k \in 1..Len(s) : s[k] = x
VSub(u, v) == Eager([k \in 1..Len(u) |-> RSub(u[k], v[k])])

\* ------------------------------------------------------------ imp1matprec
\* Imp1Row with the mean of the missing block left out of line 35.
Imp1Row_NoMean(drow, muest, kest) ==
  LET io == find_finite(drow)
      im == find_nonfinite(drow)
  IN  IF ~(ElemOK(muest, im) /\ ElemOK(muest, io)
           /\ SubmatOK(kest, im, im) /\ SubmatOK(kest, im, io))
      THEN Err("logic_error")
      ELSE LET kinv == inv(Submat(kest, im, im))
           IN  IF ~IsOk(kinv) THEN kinv
               ELSE LET corr == MatVec(kinv.val,
                                  MatVec(Submat(kest, im, io),
                                         VSub(Elem(drow, io), Elem(muest, io))))
                    IN  Ok(Eager([j \in 1..Len(drow) |->
                             IF IsFinite(drow[j]) THEN drow[j]
                             ELSE RNeg(corr[Pos(im, j)])]))

\* One pass of the loop body: row i of d with its missing entries replaced.
\* The index checks of the operands come before the inversion.
Imp1Row(drow, muest, kest) ==
  LET io == find_finite(drow)
      im == find_nonfinite(drow)
  IN  IF ~(ElemOK(muest, im) /\ ElemOK(muest, io)
           /\ SubmatOK(kest, im, im) /\ SubmatOK(kest, im, io))
      THEN Err("logic_error")
      ELSE LET kinv == inv(Submat(kest, im, im))
           IN  IF ~IsOk(kinv) THEN kinv
               ELSE LET corr == MatVec(kinv.val,
                                  MatVec(Submat(kest, im, io),
                                         VSub(Elem(drow, io), Elem(muest, io))))
                        xm == VSub(Elem(muest, im), corr)
                    IN  Ok(Eager([j \in 1..Len(drow) |->
                             IF IsFinite(drow[j]) THEN drow[j]
                             ELSE xm[Pos(im, j)]]))

RECURSIVE Imp1Loop(_, _, _, _)
Imp1Loop(d, i, muest, kest) ==
  IF i > Len(d) THEN Ok(d)
  ELSE LET r == Imp1Row(d[i], muest, kest)
       IN  IF ~IsOk(r) THEN r
           ELSE Imp1Loop([d EXCEPT ![i] = r.val], i + 1, muest, kest)

\* imp1matprec working on the caller's matrix (no copy at line 26).
imp1matprec_InPlace(D, muest, kest) ==
  [ret |-> Imp1Loop(D, 1, muest, kest),
   D |-> IF IsOk(Imp1Loop(D, 1, muest, kest))
         THEN Imp1Loop(D, 1, muest, kest).val ELSE D]

\* The call works on d, a copy of D (line 26): ret is what the call returns
\* or the exception it ends in, D is the caller's matrix after the call.
imp1matprec(D, muest, kest) ==
  [ret |-> Imp1Loop(D, 1, muest, kest), D |-> D]

\* ------------------------------------------------------------ imp2matprec
\* AddAt assigning B ("=" for "+=" at line 51).
AddAt_Assign(A, idx, B) ==
  Eager([r \in 1..Len(A) |-> [c \in 1..Len(A[r]) |->
    IF r \in Range(idx) /\ c \in Range(idx)
    THEN B[Pos(idx, r)][Pos(idx, c)]
    ELSE A[r][c]]])

\* A with B added at positions idx x idx.
AddAt(A, idx, B) ==
  Eager([r \in 1..Len(A) |-> [c \in 1..Len(A[r]) |->
    IF r \in Range(idx) /\ c \in Range(idx)
    THEN RAdd(A[r][c], B[Pos(idx, r)][Pos(idx, c)])
    ELSE A[r][c]]])

\* The loop works on the caller's t2 itself: when an iteration throws, t2
\* keeps what the earlier iterations added.  ims lists the local im of the
\* iterations that completed.
RECURSIVE Imp2Loop(_, _, _, _, _)
Imp2Loop(d, i, kest, t2, ims) ==
  IF i > Len(d) THEN [status |-> "ok", t2 |-> t2, ims |-> ims]
  ELSE LET im == find_nonfinite(d[i])
       IN  IF ~(SubmatOK(kest, im, im) /\ SubmatOK(t2, im, im))
           THEN [status |-> "logic_error", t2 |-> t2, ims |-> ims]
           ELSE LET kinv == inv(Submat(kest, im, im))
                IN  IF ~IsOk(kinv)
                    THEN [status |-> kinv.status, t2 |-> t2, ims |-> ims]
                    ELSE Imp2Loop(d, i + 1, kest, AddAt(t2, im, kinv.val),
                                  Append(ims, im))

imp2matprec(D, kest, t2) == Imp2Loop(D, 1, kest, t2, << >>)

\* ------------------------------------------------------------ EMcycleprec
ColSums(d) ==
  Eager([j \in 1..NCols(d) |-> RSum([i \in 1..Len(d) |-> d[i][j]])])
Gram(d) ==
  Eager([j \in 1..NCols(d) |-> [k \in 1..NCols(d) |->
    RSum([i \in 1..Len(d) |-> RMul(d[i][j], d[i][k])])]])

\* Lines 84-89: the list returned, or the exception of inv(newS).  The record
\* also keeps the locals of the call.
CycleReturn(loc, newK) ==
  IF ~IsOk(newK) THEN [status |-> newK.status] @@ loc
  ELSE [status |-> "ok",
        val |-> [mu |-> loc.newmu, S |-> loc.newS, K |-> newK.val]] @@ loc

\* NewS adding the outer product ("+" for "-" at line 81).
NewS_Plus(t2, N, newmu) ==
  Eager([j \in 1..Len(t2) |-> [k \in 1..Len(t2) |->
    RAdd(RDiv(t2[j][k], Q(N)), RMul(newmu[j], newmu[k]))]])

\* Line 81: newS = t2/N - newmu * newmu.t()
NewS(t2, N, newmu) ==
  Eager([j \in 1..Len(t2) |-> [k \in 1..Len(t2) |->
    RSub(RDiv(t2[j][k], Q(N)), RMul(newmu[j], newmu[k]))]])

\* Line 82: newK = inv(newS)
CycleK(loc) == CycleReturn(loc, inv(loc.newS))

CycleS(loc, N) == CycleK([newS |-> NewS(loc.t2, N, loc.newmu)] @@ loc)

\* Lines 77-82: the M step from t1, t2 and N.
CycleMstep(loc, t1, N) ==
  CycleS([newmu |-> Eager([j \in 1..Len(t1) |-> RDiv(t1[j], Q(N))])] @@ loc, N)

\* Lines 75-76: imp2matprec works on the local t2; when it throws, so does
\* the cycle.
CycleCorrect(D, dimp, gram, c2) ==
  IF c2.status # "ok" THEN [status |-> c2.status, D |-> D, dimp |-> dimp]
  ELSE CycleMstep([D |-> D, dimp |-> dimp, gram |-> gram, t2 |-> c2.t2,
                   ims |-> c2.ims],
                  ColSums(dimp), Len(dimp))

\* CycleStats handing the completed matrix to imp2matprec at line 75.
CycleStats_Completed(D, dimp, gram, kest) ==
  CycleCorrect(D, dimp, gram, imp2matprec(dimp, kest, gram))

\* Lines 63-75: t2 = dimp.t() * dimp, then imp2matprec(D, kest, t2).
CycleStats(D, dimp, gram, kest) ==
  CycleCorrect(D, dimp, gram, imp2matprec(D, kest, gram))

\* Line 61: dimp = imp1matprec(D, muest, kest).
CycleImpute(c1, kest) ==
  IF ~IsOk(c1.ret) THEN [status |-> c1.ret.status, D |-> c1.D]
  ELSE CycleStats(c1.D, c1.ret.val, Gram(c1.ret.val), kest)

EMcycleprec(D, muest, kest) == CycleImpute(imp1matprec(D, muest, kest), kest)

\* ---------------------------------------------------------------- nllprec
\* The value 0.5 * (SUM log(x), x in logs  +  quad  +  npi * log(2 pi)),
\* or NaN (nan = TRUE) once the logarithm of a negative number was added.
\* log(1) = 0 is not kept in logs.
NllZero == [nan |-> FALSE, logs |-> EmptyBag, quad |-> Zero, npi |-> 0]
NllNaN == [nan |-> TRUE, logs |-> EmptyBag, quad |-> Zero, npi |-> 0]
\* NllAdd keeping only the last term ("=" for "+=" at line 105).
NllAdd_Assign(a, b) == b

NllAdd(a, b) ==
  IF a.nan \/ b.nan THEN NllNaN
  ELSE [nan |-> FALSE, logs |-> a.logs (+) b.logs,
        quad |-> RAdd(a.quad, b.quad), npi |-> a.npi + b.npi]

\* The term row i adds to nll (line 105).
NllRow(drow, muest, kinv) ==
  LET io == find_finite(drow)
  IN  IF ~(SubmatOK(kinv, io, io) /\ ElemOK(muest, io)) THEN Err("logic_error")
      ELSE LET soo == Submat(kinv, io, io)
               dt == det(soo)
               sinv == inv(soo)
               x == VSub(Elem(drow, io), Elem(muest, io))
           IN  IF ~IsOk(sinv) THEN sinv
               ELSE IF ~RPos(dt) THEN Ok(NllNaN)
               ELSE Ok([nan |-> FALSE,
                        logs |-> IF dt = One THEN EmptyBag ELSE SetToBag({dt}),
                        quad |-> Dot(x, MatVec(sinv.val, x)),
                        npi |-> Len(io)])

RECURSIVE NllLoop(_, _, _, _, _)
NllLoop(d, i, muest, kinv, nll) ==
  IF i > Len(d) THEN Ok(nll)
  ELSE LET r == NllRow(d[i], muest, kinv)
       IN  IF ~IsOk(r) THEN r
           ELSE NllLoop(d, i + 1, muest, kinv, NllAdd(nll, r.val))

nllprec(d, muest, kest) ==
  LET kinv == inv(kest)
  IN  IF ~IsOk(kinv) THEN kinv
      ELSE NllLoop(d, 1, muest, kinv.val, NllZero)


\* ------------------------------------------------------------------ state
VARIABLES
  D,      \* the caller's data matrix, N x P, NaN where an entry is missing
  muest,  \* the caller's current mean
  kest,   \* the caller's current precision matrix
  t2,     \* the caller's T2 matrix, handed to imp2matprec by reference
  pc,     \* "ready", or the call that was made
  out     \* the outcome of that call

vars == <<D, muest, kest, t2, pc, out>>

\* ----------------------------------------------------------------- inputs
MuSlopes == {0, 1}
KDiag == {1, 2}
KOff == {0, 1, 2}
KStep == {0, 1}

Cells(N, P) == (1..N) \X (1..P)

\* The data matrix whose entries at the positions in miss are missing.
DataOf(N, P, miss) ==
  [i \in 1..N |-> [j \in 1..P |->
    IF <<i, j>> \in miss THEN NaN ELSE Q((i * j) % 3)]]
MuOf(L, m) == [j \in 1..L |-> Q(m * j)]
KOf(R, C, a, b, c) ==
  [i \in 1..R |-> [j \in 1..C |-> IF i = j THEN Q(a + (i - 1) * c) ELSE Q(b)]]
T2Of(P, u) == [j \in 1..P |-> [k \in 1..P |-> Q(u * (j + k))]]

Datasets(N, P) == {DataOf(N, P, miss) : miss \in SUBSET Cells(N, P)}
Mus(L) == {MuOf(L, m) : m \in MuSlopes}
Ks(R, C) == {KOf(R, C, a, b, c) : a \in KDiag, b \in KOff, c \in KStep}
T2s(P) == {T2Of(P, u) : u \in {0, 1}}

Fresh ==
  /\ t2 = << >>
  /\ pc = "ready"
  /\ out = [op |-> "none"]

\* Inputs of consistent shape: D is N x P, muest has length P, kest is P x P.
Init ==
  /\ \E P \in 1..MaxP : \E N \in 1..(MaxCells \div P) :
       /\ D \in Datasets(N, P)
       /\ muest \in Mus(P)
       /\ kest \in Ks(P, P)
  /\ Fresh

\* Inputs of any shape: muest of length L, kest R x C.
InitShape ==
  /\ \E P \in 1..MaxP, L \in 1..MaxP, R \in 1..MaxP, C \in 1..MaxP :
     \E N \in 1..(MaxCells \div P) :
       /\ D \in Datasets(N, P)
       /\ muest = MuOf(L, 1)
       /\ kest = KOf(R, C, 2, 1, 0)
  /\ Fresh

\* ---------------------------------------------------------------- actions
CallImp1 ==
  /\ pc = "ready"
  /\ LET c == imp1matprec(D, muest, kest)
     IN  /\ out' = [op |-> "imp1", D0 |-> D] @@ c.ret
         /\ D' = c.D
  /\ pc' = "imp1"
  /\ UNCHANGED <<muest, kest, t2>>

CallImp2 ==
  /\ pc = "ready"
  /\ \E t \in T2s(NCols(D)) :
       LET c == imp2matprec(D, kest, t)
       IN  /\ out' = [op |-> "imp2", status |-> c.status, t2in |-> t,
                       ims |-> c.ims]
           /\ t2' = c.t2
  /\ pc' = "imp2"
  /\ UNCHANGED <<D, muest, kest>>

CallCycle ==
  /\ pc = "ready"
  /\ LET c == EMcycleprec(D, muest, kest)
     IN  /\ out' = [op |-> "cycle", D0 |-> D] @@ c
         /\ D' = c.D
  /\ pc' = "cycle"
  /\ UNCHANGED <<muest, kest, t2>>

CallNll ==
  /\ pc = "ready"
  /\ out' = [op |-> "nll"] @@ nllprec(D, muest, kest)
  /\ pc' = "nll"
  /\ UNCHANGED <<D, muest, kest, t2>>

Next == CallImp1 \/ CallImp2 \/ CallCycle \/ CallNll

Spec == Init /\ [][Next]_vars
SpecShape == InitShape /\ [][Next]_vars

\* ----------------------------------------------------- terms of the claims
NumericalError == "runtime_error"
ShapeError == "logic_error"

Called == pc # "ready"
Missing(row) == {j \in 1..Len(row) : ~IsFinite(row[j])}
Observed(row) == {j \in 1..Len(row) : IsFinite(row[j])}
MissingCells(d) == {c \in Cells(Len(d), NCols(d)) : ~IsFinite(d[c[1]][c[2]])}

IsSquare(A) == \A i \in 1..Len(A) : Len(A[i]) = Len(A)
IsSymmetric(A) ==
  IsSquare(A) /\ \A i \in 1..Len(A) : \A j \in 1..Len(A) : A[i][j] = A[j][i]
\* Sylvester's criterion: every leading principal minor is positive.
IsPD(A) ==
  /\ IsSymmetric(A)
  /\ \A k \in 1..Len(A) : RPos(det(Submat(A, Iota(k), Iota(k))))
IsIdentity(A) ==
  \A i \in 1..Len(A) : \A j \in 1..Len(A) :
    A[i][j] = IF i = j THEN One ELSE Zero
MatMul(A, B) ==
  [i \in 1..Len(A) |-> [j \in 1..NCols(B) |->
    RSum([k \in 1..Len(B) |-> RMul(A[i][k], B[k][j])])]]

\* The shapes the call made reads are consistent with D (imp2matprec takes
\* no mean).
ShapesAgree ==
  /\ NRows(kest) = NCols(D) /\ NCols(kest) = NCols(D)
  /\ pc # "imp2" => Len(muest) = NCols(D)

\* C1 (as stated): every call with a precision matrix that is not positive
\* definite ends in a NumericalError.
C1_NonPDFails ==
  (Called /\ ~IsPD(kest)) => out.status = NumericalError

\* C2 (as stated): when imp2matprec fails on the inversion of K_mm, the
\* caller's T2 equals the T2 passed in.
C2_NoPartialT2 ==
  (pc = "imp2" /\ out.status = NumericalError) => t2 = out.t2in

\* C3 (as stated): every call with inconsistent shapes of D, mu and K ends
\* in a ShapeError, and (for imp2matprec) has added nothing to T2.
C3_ShapeErrorFirst ==
  (Called /\ ~ShapesAgree) =>
    /\ out.status = ShapeError
    /\ pc = "imp2" => t2 = out.t2in

\* C4 (as stated): a K that EMcycleprec returns is symmetric positive
\* definite and the inverse of the returned S, and a call whose newS is not
\* positive definite ends in a NumericalError.
C4_ReturnedKIsSPD ==
  pc = "cycle" =>
    /\ out.status = "ok" =>
         /\ IsPD(out.val.K)
         /\ IsIdentity(MatMul(out.val.K, out.val.S))
    /\ ("newS" \in DOMAIN out /\ ~IsPD(out.newS)) => out.status = NumericalError

\* C5: imp1matprec leaves the caller's D as it was, and every observed entry
\* of D is the same entry of the matrix returned (so a row without missing
\* entries is returned unchanged).
C5_ImputeKeepsObserved ==
  pc = "imp1" =>
    /\ D = out.D0
    /\ out.status = "ok" =>
         /\ Len(out.val) = Len(D)
         /\ \A i \in 1..Len(D) :
              /\ Len(out.val[i]) = Len(D[i])
              /\ \A j \in Observed(D[i]) : out.val[i][j] = D[i][j]
              /\ Missing(D[i]) = {} => out.val[i] = D[i]

C5_Witness ==
  /\ pc = "imp1" /\ out.status = "ok"
  /\ \E i \in 1..Len(D) : Missing(D[i]) # {} /\ Observed(D[i]) # {}
                          /\ out.val[i] # D[i]
  /\ \E i \in 1..Len(D) : Missing(D[i]) = {}

AllMissing(row) == Observed(row) = {}
Complete(row) == Missing(row) = {}

\* C6: a row of D with every column missing is returned as muest, and
\* imp1matprec does not fail on such rows when K is invertible (D holding
\* only rows with every column or no column missing).
C6_AllMissingRowIsMu ==
  pc = "imp1" =>
    /\ out.status = "ok" =>
         \A i \in 1..Len(D) : AllMissing(out.D0[i]) => out.val[i] = muest
    /\ ( /\ det(kest) # Zero
         /\ \A i \in 1..Len(D) : AllMissing(out.D0[i]) \/ Complete(out.D0[i]) )
       => out.status = "ok"

C6_Witness ==
  /\ pc = "imp1" /\ out.status = "ok"
  /\ NCols(out.D0) = 2
  /\ muest # <<Zero, Zero>>
  /\ kest[1][2] # Zero
  /\ \E i \in 1..Len(D) : AllMissing(out.D0[i]) /\ out.val[i] = muest

\* The entry (r, c) of the inverse of K[m, m], for m the missing columns of
\* row, when r and c are both missing in it; zero otherwise.
Correction(row, K, r, c) ==
  IF r \in Missing(row) /\ c \in Missing(row)
  THEN LET im == find_nonfinite(row)
       IN  inv(Submat(K, im, im)).val[Pos(im, r)][Pos(im, c)]
  ELSE Zero

\* C7: after a successful imp2matprec, each entry of T2 is its entry before
\* plus the sum, over the rows of D in which both its indices are missing,
\* of that entry of the inverse of K_mm; and for a positive definite K a
\* diagonal entry of a column missing in some row is strictly greater.
C7_CorrectionAdded ==
  (pc = "imp2" /\ out.status = "ok") =>
    \A r \in 1..NCols(D) : \A c \in 1..NCols(D) :
      /\ t2[r][c] = RAdd(out.t2in[r][c],
                      RSum([i \in 1..Len(D) |-> Correction(D[i], kest, r, c)]))
      /\ (\A i \in 1..Len(D) : ~(r \in Missing(D[i]) /\ c \in Missing(D[i])))
           => t2[r][c] = out.t2in[r][c]
      /\ (IsPD(kest) /\ r = c /\ \E i \in 1..Len(D) : r \in Missing(D[i]))
           => RLess(out.t2in[r][r], t2[r][r])

C7_Witness ==
  /\ pc = "imp2" /\ out.status = "ok"
  /\ NCols(D) = 2
  /\ IsPD(kest) /\ kest[1][2] # Zero
  /\ out.t2in[1][2] # Zero
  /\ \E i \in 1..Len(D) : Missing(D[i]) = {1, 2}
  /\ \E i \in 1..Len(D) : Missing(D[i]) = {2}
  /\ \E i \in 1..Len(D) : Missing(D[i]) = {}
  /\ RLess(out.t2in[2][2], t2[2][2])

ColMean(d, j) == RDiv(RSum([i \in 1..Len(d) |-> d[i][j]]), Q(Len(d)))
\* The divide-by-N covariance of columns j and k.
BiasedCov(d, j, k) ==
  RDiv(RSum([i \in 1..Len(d) |->
         RMul(RSub(d[i][j], ColMean(d, j)), RSub(d[i][k], ColMean(d, k)))]),
       Q(Len(d)))
IsMoments(d, mu, S) ==
  /\ Len(mu) = NCols(d) /\ Len(S) = NCols(d)
  /\ \A j \in 1..NCols(d) :
       /\ mu[j] = ColMean(d, j)
       /\ Len(S[j]) = NCols(d)
       /\ \A k \in 1..NCols(d) : S[j][k] = BiasedCov(d, j, k)

\* C8: for a D without missing entries, EMcycleprec computes newmu as the
\* column means of D and newS as the divide-by-N sample covariance of D,
\* whatever muest and kest are, and these are the mu and S it returns.
C8_CompleteDataMoments ==
  (pc = "cycle" /\ MissingCells(out.D0) = {}) =>
    /\ out.status \in {"ok", NumericalError}
    /\ IsMoments(out.D0, out.newmu, out.newS)
    /\ out.status = "ok" => (out.val.mu = out.newmu /\ out.val.S = out.newS)

C8_Witness ==
  /\ pc = "cycle" /\ out.status = "ok"
  /\ MissingCells(out.D0) = {}
  /\ NCols(out.D0) = 2
  /\ out.val.S[1][2] # Zero
  /\ ~IsPD(kest)
  /\ \E j \in 1..2 : out.val.mu[j] # muest[j]

\* The sum of two values of nllprec, and the outcome of two calls whose
\* values are added.
NllPlus(a, b) ==
  [nan |-> a.nan \/ b.nan,
   logs |-> IF a.nan \/ b.nan THEN EmptyBag ELSE a.logs (+) b.logs,
   quad |-> IF a.nan \/ b.nan THEN Zero ELSE RAdd(a.quad, b.quad),
   npi |-> IF a.nan \/ b.nan THEN 0 ELSE a.npi + b.npi]
NllBoth(x, y) ==
  IF ~IsOk(x) THEN x ELSE IF ~IsOk(y) THEN y ELSE Ok(NllPlus(x.val, y.val))
SameOutcome(x, y) ==
  /\ x.status = y.status
  /\ x.status = "ok" => x.val = y.val
Swap(d, a, b) == [d EXCEPT ![a] = d[b], ![b] = d[a]]

\* C9: nllprec on D equals the sum of nllprec on the first k rows and on the
\* remaining rows, for every k, and is the same with any two rows of D
\* exchanged (the exchanges generate every permutation of the rows).
C9_NllAdditive ==
  pc = "nll" =>
    /\ \A k \in 0..Len(D) :
         SameOutcome(out, NllBoth(nllprec(SubSeq(D, 1, k), muest, kest),
                                  nllprec(SubSeq(D, k + 1, Len(D)), muest, kest)))
    /\ \A a \in 1..Len(D) : \A b \in (a + 1)..Len(D) :
         SameOutcome(out, nllprec(Swap(D, a, b), muest, kest))

C9_Witness ==
  /\ pc = "nll" /\ out.status = "ok" /\ ~out.val.nan
  /\ Len(D) = 3 /\ NCols(D) = 2
  /\ out.val.quad # Zero
  /\ BagCardinality(out.val.logs) >= 2
  /\ Cardinality(BagToSet(out.val.logs)) > 1
  /\ Cardinality({Observed(D[i]) : i \in 1..3}) = 3

FilledCells(d0, dimp) ==
  {c \in Cells(Len(d0), NCols(d0)) :
     ~IsFinite(d0[c[1]][c[2]]) /\ IsFinite(dimp[c[1]][c[2]])}
CorrectedCells(ims) ==
  UNION {{<<i, j>> : j \in Range(ims[i])} : i \in 1..Len(ims)}

\* C10: in one EMcycleprec, the matrix dimp used for t1 and the Gram matrix
\* has no missing entry, and the (row, column) positions that imp1matprec
\* filled are the (row, missing column) positions whose K_mm inverse
\* imp2matprec added to t2, which are the missing positions of D.
C10_RawPartition ==
  (pc = "cycle" /\ "dimp" \in DOMAIN out) =>
    /\ MissingCells(out.dimp) = {}
    /\ "ims" \in DOMAIN out =>
         /\ Len(out.ims) = Len(out.D0)
         /\ CorrectedCells(out.ims) = FilledCells(out.D0, out.dimp)
         /\ CorrectedCells(out.ims) = MissingCells(out.D0)

C10_Witness ==
  /\ pc = "cycle" /\ out.status = "ok"
  /\ Len(out.D0) = 3 /\ NCols(out.D0) = 2
  /\ Cardinality(MissingCells(out.D0)) = 3
  /\ \E i \in 1..3 : Missing(out.D0[i]) = {}
  /\ CorrectedCells(out.ims) = MissingCells(out.D0)
  /\ out.t2 # out.gram

=============================================================================
